---- MODULE Spec2Model ----
(***************************************************************************)
(* Model of the game-state engine of jstarkman/tetris-clone-rust           *)
(* (src/src/tetris.rs): the grid of rows, the falling piece, placement     *)
(* legality, commit-on-landing, row clearing with collapse, spawning and   *)
(* game over.                                                              *)
(*                                                                         *)
(* Encoding.  Coordinates are 0-based as in the source; a TLA+ sequence is *)
(* 1-based, so cell_matrix[y].cells[x] of the source is                    *)
(* cell_matrix[y + 1].cells[x + 1] here.  Option<Cell> is None (0) or the  *)
(* hue of the cell (a positive number); Option<Piece> is the empty         *)
(* sequence (None) or a one-element sequence (Some).                       *)
(***************************************************************************)
EXTENDS Integers, Sequences, FiniteSets, TLC

\* ---------------------------------------------------------------- bounds
\* GameState::new(height, width): the board of the checked instance.
Height == 4
Width == 3
\* Cell::hue is an f32 in [0, 1); the model draws it from 1..NumHues.
NumHues == 1
\* rows_cleared is a u32 counter; try_drop is not called once it reached this.
MaxRowsCleared == 2
\* Piece::generate_new draws size from 3..5; the game play specification
\* draws it from 3..MaxDrawnSize (capped at 5).
MaxDrawnSize == 3
\* The spawn specification takes the board sides from MaxPieceSize..MaxSpawnSide.
MaxSpawnSide == 6

\* ------------------------------------------------------- program constants
MinPieceSize == 3
MaxPieceSize == 5
\* The board of main.rs.
width_cells == 8
height_cells == 24

None == 0
Hues == 1 .. NumHues

VARIABLES
    cell_matrix,            \* Vec<Row>, index 1 = top row
    cell_matrix_width,      \* usize
    current_piece,          \* Option<Piece>
    current_piece_mass_xy,  \* (i32, i32)
    rows_cleared,           \* u32
    is_alive,               \* bool
    op,                     \* the public call that produced this state
    ret,                    \* its return value (TRUE for calls returning nothing)
    generated,              \* the local p of queue_new_piece, when the call ran one
    cleared,                \* the indices i_row (0-based) the call cleared a row at
    passes,                 \* one entry per pass of the call's clear_finished_rows
    growing                 \* the locals of a running Piece::generate_new, else <<>>

vars == <<cell_matrix, cell_matrix_width, current_piece, current_piece_mass_xy,
          rows_cleared, is_alive, op, ret, generated, cleared, passes, growing>>

\* ------------------------------------------------------------------ helpers
Abs(n) == IF n < 0 THEN -n ELSE n

RECURSIVE SeqMin(_)
SeqMin(s) ==
    IF Len(s) = 1 THEN s[1]
    ELSE LET m == SeqMin(Tail(s)) IN IF s[1] < m THEN s[1] ELSE m

RECURSIVE SeqSum(_)
SeqSum(s) == IF s = <<>> THEN 0 ELSE s[1] + SeqSum(Tail(s))

\* f32::round of n / m for an integer n and m > 0: half away from zero.
RoundDiv(n, m) ==
    IF n >= 0 THEN (2 * n + m) \div (2 * m)
    ELSE -((2 * (-n) + m) \div (2 * m))

\* ---------------------------------------------------------------------- Row
RowNew(width) == [cells |-> [x \in 1 .. width |-> None], is_empty |-> TRUE]

\* Row::reset that forgets the flag.
RowReset_keeps_flag(row) ==
    [cells |-> [x \in 1 .. Len(row.cells) |-> None], is_empty |-> row.is_empty]

RowReset(row) ==
    [cells |-> [x \in 1 .. Len(row.cells) |-> None], is_empty |-> TRUE]

\* -------------------------------------------------------------------- Piece
OFFSETS == <<<<0, 1>>, <<1, 0>>, <<0, -1>>, <<-1, 0>>>>

CellWithRelativePosition(hue, x, y) == [cell |-> hue, x |-> x, y |-> y]

center_of_mass(cells) ==
    LET x == SeqSum([i \in 1 .. Len(cells) |-> cells[i].x])
        y == SeqSum([i \in 1 .. Len(cells) |-> cells[i].y])
        m == Len(cells)
    IN  <<RoundDiv(x, m), RoundDiv(y, m)>>

MkPiece(cells) ==
    [cells |-> cells,
     center_of_mass_x |-> center_of_mass(cells)[1],
     center_of_mass_y |-> center_of_mass(cells)[2]]

\* attach without the is_blocked test: every neighbour of s becomes a site.
attach_unblocked(hue, cells, sites, s) ==
    LET pushed == Append(cells, CellWithRelativePosition(hue, s[1], s[2]))
        fresh  == {<<s[1] + OFFSETS[k][1], s[2] + OFFSETS[k][2]>> : k \in 1 .. 4}
    IN  [cells |-> pushed, sites |-> (sites \ {s}) \cup fresh]

\* One turn of the loop of generate_new with the candidate site s drawn: the
\* cell is pushed, s leaves the candidate set and its neighbours that no cell
\* of the piece blocks enter it.
attach(hue, cells, sites, s) ==
    LET pushed == Append(cells, CellWithRelativePosition(hue, s[1], s[2]))
        fresh  == {<<s[1] + OFFSETS[k][1], s[2] + OFFSETS[k][2]>> : k \in 1 .. 4}
        open   == {n \in fresh :
                      ~ \E i \in 1 .. Len(pushed) :
                            pushed[i].x = n[1] /\ pushed[i].y = n[2]}
    IN  [cells |-> pushed, sites |-> (sites \ {s}) \cup open]

\* The loop of generate_new: `more` cells still to attach, each at a site
\* drawn from the candidate set (any element: HashSet order and rng index).
RECURSIVE grow(_, _, _, _)
grow(hue, cells, sites, more) ==
    IF more = 0 THEN {cells}
    ELSE UNION {
        LET a == attach(hue, cells, sites, s)
        IN  grow(hue, a.cells, a.sites, more - 1)
        : s \in sites }

generate_sized(sizes) ==
    UNION { UNION {
        { MkPiece(cells) :
            cells \in grow(hue, <<CellWithRelativePosition(hue, 0, 0)>>,
                           {OFFSETS[k] : k \in 1 .. 4}, size - 1) }
        : size \in sizes }
        : hue \in Hues }

\* Every piece Piece::generate_new can return.
generate_new == generate_sized(MinPieceSize .. MaxPieceSize)

\* The pieces drawn during game play.
DrawnPieces ==
    generate_sized(MinPieceSize ..
                   (IF MaxDrawnSize < MaxPieceSize THEN MaxDrawnSize ELSE MaxPieceSize))

\* The clockwise turn without its sign change.
rotate_2d_unsigned(clockwise, v) ==
    IF clockwise THEN <<v[2], v[1]>> ELSE <<-v[2], v[1]>>

rotate_2d(clockwise, v) ==
    IF clockwise THEN <<v[2], -v[1]>> ELSE <<-v[2], v[1]>>

rotated(p, clockwise) ==
    [p EXCEPT !.cells =
        [i \in 1 .. Len(p.cells) |->
            LET c == p.cells[i]
                v == rotate_2d(clockwise,
                               <<c.x - p.center_of_mass_x, c.y - p.center_of_mass_y>>)
            IN  CellWithRelativePosition(c.cell,
                                         v[1] + p.center_of_mass_x,
                                         v[2] + p.center_of_mass_y)]]

\* PieceGlobalSpaceIter: the items (cell, x, y) in sequence order.
iter_global_space(p, xy) ==
    [i \in 1 .. Len(p.cells) |->
        [cell |-> p.cells[i].cell,
         x |-> xy[1] + p.cells[i].x - p.center_of_mass_x,
         y |-> xy[2] + p.cells[i].y - p.center_of_mass_y]]

\* ---------------------------------------------------------------- GameState
\* can_place without the final cell.is_none() test.
can_place_ignores_occupied(matrix, p, xy) ==
    LET it == iter_global_space(p, xy)
    IN  \A i \in 1 .. Len(it) :
            IF it[i].x < 0 \/ it[i].y < 0 THEN FALSE
            ELSE IF ~ (it[i].y < Len(matrix)) THEN FALSE
            ELSE IF ~ (it[i].x < Len(matrix[it[i].y + 1].cells)) THEN FALSE
            ELSE TRUE

can_place(matrix, p, xy) ==
    LET it == iter_global_space(p, xy)
    IN  \A i \in 1 .. Len(it) :
            IF it[i].x < 0 \/ it[i].y < 0 THEN FALSE
            ELSE IF ~ (it[i].y < Len(matrix)) THEN FALSE
            ELSE IF ~ (it[i].x < Len(matrix[it[i].y + 1].cells)) THEN FALSE
            ELSE matrix[it[i].y + 1].cells[it[i].x + 1] = None

\* The writes of commit_current_piece without line 90 (is_empty = false).
RECURSIVE commit_cells_keeps_flag(_, _, _)
commit_cells_keeps_flag(matrix, it, i) ==
    IF i > Len(it) THEN matrix
    ELSE commit_cells_keeps_flag(
            [matrix EXCEPT ![it[i].y + 1] =
                [cells |-> [@.cells EXCEPT ![it[i].x + 1] = it[i].cell],
                 is_empty |-> @.is_empty]],
            it, i + 1)

\* commit_current_piece: the writes of the loop, in sequence order.
RECURSIVE commit_cells(_, _, _)
commit_cells(matrix, it, i) ==
    IF i > Len(it) THEN matrix
    ELSE commit_cells(
            [matrix EXCEPT ![it[i].y + 1] =
                [cells |-> [@.cells EXCEPT ![it[i].x + 1] = it[i].cell],
                 is_empty |-> FALSE]],
            it, i + 1)

\* commit_current_piece that does not write the first cell of the piece.
commit_current_piece_skips_first(matrix, p, xy) ==
    commit_cells(matrix, iter_global_space(p, xy), 2)

commit_current_piece(matrix, p, xy) ==
    commit_cells(matrix, iter_global_space(p, xy), 1)

Swap(matrix, i, j) ==
    [matrix EXCEPT ![i] = matrix[j], ![j] = matrix[i]]

\* "drop higher cells" with a single swap instead of the loop.
drop_higher_once(matrix, i_row) ==
    IF i_row < 2 THEN matrix
    ELSE IF ~ matrix[i_row - 1].is_empty
         THEN Swap(matrix, i_row, i_row - 1)
         ELSE matrix

\* "drop higher cells" left out: the cleared row stays where it was.
drop_higher_none(matrix, i_row) == matrix

\* The inner loop "drop higher cells": i_row runs from the cleared row
\* upwards (here 1-based, so the loop ends at index 2).
RECURSIVE drop_higher(_, _)
drop_higher(matrix, i_row) ==
    IF i_row < 2 THEN matrix
    ELSE IF ~ matrix[i_row - 1].is_empty
         THEN drop_higher(Swap(matrix, i_row, i_row - 1), i_row - 1)
         ELSE matrix

\* clear_pass that marks a full row empty and counts it but leaves its cells.
RECURSIVE clear_pass_keeps_cells(_, _)
clear_pass_keeps_cells(st, i_row) ==
    IF i_row > Len(st.m) THEN st
    ELSE IF st.m[i_row].is_empty THEN clear_pass_keeps_cells(st, i_row + 1)
    ELSE IF \A x \in 1 .. Len(st.m[i_row].cells) : st.m[i_row].cells[x] # None
         THEN clear_pass_keeps_cells(
                [m |-> drop_higher([st.m EXCEPT ![i_row].is_empty = TRUE], i_row),
                 rc |-> st.rc + 1,
                 changed |-> TRUE,
                 idx |-> st.idx \cup {i_row - 1}],
                i_row + 1)
         ELSE clear_pass_keeps_cells(st, i_row + 1)

\* One pass of the for loop of clear_finished_rows from row i_row on.
\* st = [m: matrix, rc: rows_cleared, changed: anything_changed, idx: the
\* 0-based indices i_row at which a row was cleared so far]
RECURSIVE clear_pass(_, _)
clear_pass(st, i_row) ==
    IF i_row > Len(st.m) THEN st
    ELSE IF st.m[i_row].is_empty THEN clear_pass(st, i_row + 1)
    ELSE IF \A x \in 1 .. Len(st.m[i_row].cells) : st.m[i_row].cells[x] # None
         THEN clear_pass(
                [m |-> drop_higher(
                          [st.m EXCEPT ![i_row] =
                              [cells |-> [x \in 1 .. Len(@.cells) |-> None],
                               is_empty |-> TRUE]],
                          i_row),
                 rc |-> st.rc + 1,
                 changed |-> TRUE,
                 idx |-> st.idx \cup {i_row - 1}],
                i_row + 1)
         ELSE clear_pass(st, i_row + 1)

\* The number of grid slots holding a cell.
occupied(matrix) ==
    SeqSum([y \in 1 .. Len(matrix) |->
               Cardinality({x \in 1 .. Len(matrix[y].cells) : matrix[y].cells[x] # None})])

\* rows_cleared counted once per pass that cleared something instead of once
\* per cleared row.
RECURSIVE clear_finished_rows_counts_passes(_, _)
clear_finished_rows_counts_passes(matrix, rc) ==
    LET st == clear_pass([m |-> matrix, rc |-> rc, changed |-> FALSE, idx |-> {}], 1)
        pass == [occupied |-> occupied(matrix), cleared |-> st.rc - rc]
    IN  IF st.changed
        THEN LET again == clear_finished_rows_counts_passes(st.m, rc + 1)
             IN  [again EXCEPT !.idx = @ \cup st.idx, !.passes = <<pass>> \o @]
        ELSE [m |-> st.m, rc |-> st.rc, idx |-> st.idx, passes |-> <<pass>>]

\* clear_finished_rows that stops after the first full row it cleared.
clear_finished_rows_first_only(matrix, rc) ==
    LET full == {y \in 1 .. Len(matrix) :
                    /\ ~ matrix[y].is_empty
                    /\ \A x \in 1 .. Len(matrix[y].cells) : matrix[y].cells[x] # None}
    IN  IF full = {}
        THEN [m |-> matrix, rc |-> rc, idx |-> {},
              passes |-> <<[occupied |-> occupied(matrix), cleared |-> 0]>>]
        ELSE LET y == CHOOSE y \in full : \A z \in full : y <= z
             IN  [m |-> drop_higher(
                           [matrix EXCEPT ![y] =
                               [cells |-> [x \in 1 .. Len(@.cells) |-> None],
                                is_empty |-> TRUE]],
                           y),
                  rc |-> rc + 1,
                  idx |-> {y - 1},
                  passes |-> <<[occupied |-> occupied(matrix), cleared |-> 1]>>]

\* The result of clear_finished_rows: [m: matrix, rc: rows_cleared, idx,
\* passes]; passes has one entry per call of the recursion, in call order:
\* the slots occupied when the pass began and the rows the pass cleared.
RECURSIVE clear_finished_rows(_, _)
clear_finished_rows(matrix, rc) ==
    LET st == clear_pass([m |-> matrix, rc |-> rc, changed |-> FALSE, idx |-> {}], 1)
        pass == [occupied |-> occupied(matrix), cleared |-> st.rc - rc]
    IN  IF st.changed
        THEN LET again == clear_finished_rows(st.m, st.rc)
             IN  [again EXCEPT !.idx = @ \cup st.idx, !.passes = <<pass>> \o @]
        ELSE [m |-> st.m, rc |-> st.rc, idx |-> st.idx, passes |-> <<pass>>]

clearance(p) ==
    Abs(SeqMin([i \in 1 .. Len(p.cells) |-> iter_global_space(p, <<0, 0>>)[i].y]))

\* init_xy that puts the anchor in row 0 whatever the piece needs above it.
init_xy_without_clearance(width, p) == <<width \div 2, 0>>

init_xy(width, p) == <<width \div 2, clearance(p)>>

\* queue_new_piece that anchors the piece at row 0, without the clearance.
queue_new_piece_at_row_0(matrix, p) ==
    /\ generated' = <<p>>
    /\ IF ~ can_place(matrix, p, <<cell_matrix_width \div 2, 0>>)
       THEN /\ is_alive' = FALSE
            /\ UNCHANGED <<current_piece, current_piece_mass_xy>>
       ELSE /\ current_piece' = <<p>>
            /\ current_piece_mass_xy' = <<cell_matrix_width \div 2, 0>>
            /\ UNCHANGED is_alive

\* queue_new_piece that marks the game alive again when the piece fits.
queue_new_piece_revives(matrix, p) ==
    /\ generated' = <<p>>
    /\ IF ~ can_place(matrix, p, init_xy(cell_matrix_width, p))
       THEN /\ is_alive' = FALSE
            /\ UNCHANGED <<current_piece, current_piece_mass_xy>>
       ELSE /\ current_piece' = <<p>>
            /\ current_piece_mass_xy' = init_xy(cell_matrix_width, p)
            /\ is_alive' = TRUE

\* queue_new_piece with p the piece Piece::generate_new returned; the grid
\* and rows_cleared are not touched.
queue_new_piece(matrix, p) ==
    /\ generated' = <<p>>
    /\ IF ~ can_place(matrix, p, init_xy(cell_matrix_width, p))
       THEN /\ is_alive' = FALSE
            /\ UNCHANGED <<current_piece, current_piece_mass_xy>>
       ELSE /\ current_piece' = <<p>>
            /\ current_piece_mass_xy' = init_xy(cell_matrix_width, p)
            /\ UNCHANGED is_alive

\* GameState::new(Height, Width)
Init ==
    \E p \in DrawnPieces :
        /\ cell_matrix = [y \in 1 .. Height |-> RowNew(Width)]
        /\ cell_matrix_width = Width
        /\ rows_cleared = 0
        /\ op = "new"
        /\ ret = TRUE
        /\ generated = <<p>>
        /\ cleared = {}
        /\ passes = <<>>
        /\ growing = <<>>
        /\ IF ~ can_place([y \in 1 .. Height |-> RowNew(Width)], p, init_xy(Width, p))
           THEN /\ is_alive = FALSE
                /\ current_piece = <<>>
                /\ current_piece_mass_xy = <<0, 0>>
           ELSE /\ is_alive = TRUE
                /\ current_piece = <<p>>
                /\ current_piece_mass_xy = init_xy(Width, p)

reset ==
    /\ cell_matrix' = [y \in 1 .. Len(cell_matrix) |-> RowReset(cell_matrix[y])]
    /\ current_piece' = <<>>
    /\ current_piece_mass_xy' = <<0, 0>>
    /\ rows_cleared' = 0
    /\ is_alive' = TRUE
    /\ op' = "reset"
    /\ ret' = TRUE
    /\ generated' = <<>>
    /\ cleared' = {}
    /\ passes' = <<>>
    /\ growing' = <<>>
    /\ UNCHANGED cell_matrix_width

\* try_rotate that asks can_place about the piece as it is, not as rotated.
try_rotate_tests_unrotated(clockwise) ==
    /\ op' = "try_rotate"
    /\ generated' = <<>>
    /\ cleared' = {}
    /\ passes' = <<>>
    /\ growing' = <<>>
    /\ IF current_piece # <<>>
          /\ can_place(cell_matrix, current_piece[1], current_piece_mass_xy)
       THEN /\ current_piece' = <<rotated(current_piece[1], clockwise)>>
            /\ ret' = TRUE
       ELSE /\ ret' = FALSE
            /\ UNCHANGED current_piece
    /\ UNCHANGED <<cell_matrix, cell_matrix_width, current_piece_mass_xy,
                   rows_cleared, is_alive>>

try_rotate_current_piece(clockwise) ==
    /\ op' = "try_rotate"
    /\ generated' = <<>>
    /\ cleared' = {}
    /\ passes' = <<>>
    /\ growing' = <<>>
    /\ IF current_piece # <<>>
          /\ can_place(cell_matrix, rotated(current_piece[1], clockwise),
                       current_piece_mass_xy)
       THEN /\ current_piece' = <<rotated(current_piece[1], clockwise)>>
            /\ ret' = TRUE
       ELSE /\ ret' = FALSE
            /\ UNCHANGED current_piece
    /\ UNCHANGED <<cell_matrix, cell_matrix_width, current_piece_mass_xy,
                   rows_cleared, is_alive>>

\* try_leftright that stores dst before it asks can_place.
try_leftright_moves_first(leftwards) ==
    LET direction == IF leftwards THEN -1 ELSE 1
        dst == <<current_piece_mass_xy[1] + direction, current_piece_mass_xy[2]>>
    IN  /\ op' = "try_leftright"
        /\ generated' = <<>>
        /\ cleared' = {}
        /\ passes' = <<>>
        /\ growing' = <<>>
        /\ IF current_piece # <<>>
           THEN /\ current_piece_mass_xy' = dst
                /\ ret' = can_place(cell_matrix, current_piece[1], dst)
           ELSE /\ ret' = FALSE
                /\ UNCHANGED current_piece_mass_xy
        /\ UNCHANGED <<cell_matrix, cell_matrix_width, current_piece,
                       rows_cleared, is_alive>>

try_leftright_current_piece(leftwards) ==
    LET direction == IF leftwards THEN -1 ELSE 1
        dst == <<current_piece_mass_xy[1] + direction, current_piece_mass_xy[2]>>
    IN  /\ op' = "try_leftright"
        /\ generated' = <<>>
        /\ cleared' = {}
        /\ passes' = <<>>
        /\ growing' = <<>>
        /\ IF current_piece # <<>> /\ can_place(cell_matrix, current_piece[1], dst)
           THEN /\ current_piece_mass_xy' = dst
                /\ ret' = TRUE
           ELSE /\ ret' = FALSE
                /\ UNCHANGED current_piece_mass_xy
        /\ UNCHANGED <<cell_matrix, cell_matrix_width, current_piece,
                       rows_cleared, is_alive>>

\* try_drop whose landing branch reads the piece (as_ref) instead of taking it.
try_drop_keeps_piece ==
    /\ rows_cleared < MaxRowsCleared
    /\ op' = "try_drop"
    /\ UNCHANGED cell_matrix_width
    /\ IF current_piece # <<>>
       THEN LET dst == <<current_piece_mass_xy[1], current_piece_mass_xy[2] + 1>>
            IN  IF can_place(cell_matrix, current_piece[1], dst)
                THEN /\ current_piece_mass_xy' = dst
                     /\ ret' = TRUE
                     /\ generated' = <<>>
                     /\ cleared' = {}
                     /\ passes' = <<>>
                     /\ growing' = <<>>
                     /\ UNCHANGED <<cell_matrix, current_piece, rows_cleared, is_alive>>
                ELSE LET done == clear_finished_rows(
                                    commit_current_piece(cell_matrix, current_piece[1],
                                                         current_piece_mass_xy),
                                    rows_cleared)
                     IN  /\ cell_matrix' = done.m
                         /\ rows_cleared' = done.rc
                         /\ ret' = FALSE
                         /\ generated' = <<>>
                         /\ cleared' = done.idx
                         /\ passes' = done.passes
                         /\ growing' = <<>>
                         /\ UNCHANGED <<current_piece, current_piece_mass_xy, is_alive>>
       ELSE /\ \E p \in DrawnPieces : queue_new_piece(cell_matrix, p)
            /\ ret' = FALSE
            /\ cleared' = {}
            /\ passes' = <<>>
            /\ growing' = <<>>
            /\ UNCHANGED <<cell_matrix, rows_cleared>>

\* try_drop that reports a move down but does not store the new anchor.
try_drop_hovers ==
    /\ rows_cleared < MaxRowsCleared
    /\ op' = "try_drop"
    /\ UNCHANGED cell_matrix_width
    /\ IF current_piece # <<>>
       THEN LET dst == <<current_piece_mass_xy[1], current_piece_mass_xy[2] + 1>>
            IN  IF can_place(cell_matrix, current_piece[1], dst)
                THEN /\ ret' = TRUE
                     /\ generated' = <<>>
                     /\ cleared' = {}
                     /\ passes' = <<>>
                     /\ growing' = <<>>
                     /\ UNCHANGED <<cell_matrix, current_piece, current_piece_mass_xy,
                                    rows_cleared, is_alive>>
                ELSE LET done == clear_finished_rows(
                                    commit_current_piece(cell_matrix, current_piece[1],
                                                         current_piece_mass_xy),
                                    rows_cleared)
                     IN  /\ cell_matrix' = done.m
                         /\ rows_cleared' = done.rc
                         /\ current_piece' = <<>>
                         /\ ret' = FALSE
                         /\ generated' = <<>>
                         /\ cleared' = done.idx
                         /\ passes' = done.passes
                         /\ growing' = <<>>
                         /\ UNCHANGED <<current_piece_mass_xy, is_alive>>
       ELSE /\ \E p \in DrawnPieces : queue_new_piece(cell_matrix, p)
            /\ ret' = FALSE
            /\ cleared' = {}
            /\ passes' = <<>>
            /\ growing' = <<>>
            /\ UNCHANGED <<cell_matrix, rows_cleared>>

try_drop_current_piece ==
    /\ rows_cleared < MaxRowsCleared
    /\ op' = "try_drop"
    /\ UNCHANGED cell_matrix_width
    /\ IF current_piece # <<>>
       THEN LET dst == <<current_piece_mass_xy[1], current_piece_mass_xy[2] + 1>>
            IN  IF can_place(cell_matrix, current_piece[1], dst)
                THEN /\ current_piece_mass_xy' = dst
                     /\ ret' = TRUE
                     /\ generated' = <<>>
                     /\ cleared' = {}
                     /\ passes' = <<>>
                     /\ growing' = <<>>
                     /\ UNCHANGED <<cell_matrix, current_piece, rows_cleared, is_alive>>
                ELSE LET done == clear_finished_rows(
                                    commit_current_piece(cell_matrix, current_piece[1],
                                                         current_piece_mass_xy),
                                    rows_cleared)
                     IN  /\ cell_matrix' = done.m
                         /\ rows_cleared' = done.rc
                         /\ current_piece' = <<>>
                         /\ ret' = FALSE
                         /\ generated' = <<>>
                         /\ cleared' = done.idx
                         /\ passes' = done.passes
                         /\ growing' = <<>>
                         /\ UNCHANGED <<current_piece_mass_xy, is_alive>>
       ELSE /\ \E p \in DrawnPieces : queue_new_piece(cell_matrix, p)
            /\ ret' = FALSE
            /\ cleared' = {}
            /\ passes' = <<>>
            /\ growing' = <<>>
            /\ UNCHANGED <<cell_matrix, rows_cleared>>

Next ==
    \/ \E clockwise \in BOOLEAN : try_rotate_current_piece(clockwise)
    \/ \E leftwards \in BOOLEAN : try_leftright_current_piece(leftwards)
    \/ try_drop_current_piece
    \/ reset

Spec == Init /\ [][Next]_vars

\* ----------------------------------------------------- the driver of main.rs
\* A frame of the main loop calls the game only while it is alive: at most one
\* rotate or shift for a pressed key, and try_drop when the tick counter has
\* reached ticks_per_drop_want.  The counter grows by one each frame and is
\* reset only by the drop, so while the game is alive the drop keeps coming.
frame_rotate(clockwise) == is_alive /\ try_rotate_current_piece(clockwise)

frame_leftright(leftwards) == is_alive /\ try_leftright_current_piece(leftwards)

frame_drop == is_alive /\ try_drop_current_piece

NextDriver ==
    \/ \E clockwise \in BOOLEAN : frame_rotate(clockwise)
    \/ \E leftwards \in BOOLEAN : frame_leftright(leftwards)
    \/ frame_drop

\* The drop of a frame as far as the active slot shows it: try_drop was called
\* with an active piece and the piece went down one row or left the slot.
\* Every frame_drop on an active piece is such a step and no other step is.
drop_of_active_piece ==
    /\ is_alive
    /\ rows_cleared < MaxRowsCleared
    /\ current_piece # <<>>
    /\ op' = "try_drop"
    /\ \/ /\ current_piece' = current_piece
          /\ current_piece_mass_xy' =
                <<current_piece_mass_xy[1], current_piece_mass_xy[2] + 1>>
       \/ /\ current_piece' = <<>>
          /\ current_piece_mass_xy' = current_piece_mass_xy

\* The drop of an active piece is not put off forever.
SpecDriver ==
    /\ Init
    /\ [][NextDriver]_vars
    /\ WF_<<current_piece, current_piece_mass_xy>>(drop_of_active_piece)

\* ------------------------------------------------ can_place on planted boards
\* At most MaxPlanted occupied slots are planted on the board.
MaxPlanted == 2

Slots == (0 .. Width - 1) \X (0 .. Height - 1)

PlantedGrids ==
    { [y \in 1 .. Height |->
          [cells |-> [x \in 1 .. Width |->
                          IF <<x - 1, y - 1>> \in S THEN hue ELSE None],
           is_empty |-> \A x \in 1 .. Width : <<x - 1, y - 1>> \notin S]]
      : S \in {T \in SUBSET Slots : Cardinality(T) <= MaxPlanted}, hue \in Hues }

Anchors == (-1 .. Width) \X (-1 .. Height)

InitCanPlace ==
    \E g \in PlantedGrids, p \in DrawnPieces, xy \in Anchors :
        /\ cell_matrix = g
        /\ cell_matrix_width = Width
        /\ current_piece = <<p>>
        /\ current_piece_mass_xy = xy
        /\ rows_cleared = 0
        /\ is_alive = TRUE
        /\ op = "input"
        /\ ret = TRUE
        /\ generated = <<>>
        /\ cleared = {}
        /\ passes = <<>>
        /\ growing = <<>>

can_place_call ==
    /\ op = "input"
    /\ op' = "can_place"
    /\ ret' = can_place(cell_matrix, current_piece[1], current_piece_mass_xy)
    /\ UNCHANGED <<cell_matrix, cell_matrix_width, current_piece,
                   current_piece_mass_xy, rows_cleared, is_alive, generated, cleared,
                   passes, growing>>

NextCanPlace == can_place_call

SpecCanPlace == InitCanPlace /\ [][NextCanPlace]_vars

\* ------------------------------------------ clear_finished_rows on any board
RowValues ==
    { [cells |-> c, is_empty |-> \A x \in 1 .. Width : c[x] = None]
      : c \in [1 .. Width -> {None} \cup Hues] }

AllGrids == [1 .. Height -> RowValues]

InitClear ==
    \E g \in AllGrids, rc \in 0 .. MaxRowsCleared :
        /\ cell_matrix = g
        /\ cell_matrix_width = Width
        /\ current_piece = <<>>
        /\ current_piece_mass_xy = <<0, 0>>
        /\ rows_cleared = rc
        /\ is_alive = TRUE
        /\ op = "input"
        /\ ret = TRUE
        /\ generated = <<>>
        /\ cleared = {}
        /\ passes = <<>>
        /\ growing = <<>>

clear_call ==
    /\ op = "input"
    /\ op' = "clear_finished_rows"
    /\ LET done == clear_finished_rows(cell_matrix, rows_cleared)
       IN  /\ cell_matrix' = done.m
           /\ rows_cleared' = done.rc
           /\ cleared' = done.idx
           /\ passes' = done.passes
           /\ growing' = <<>>
    /\ UNCHANGED <<cell_matrix_width, current_piece, current_piece_mass_xy,
                   is_alive, ret, generated>>

NextClear == clear_call

SpecClear == InitClear /\ [][NextClear]_vars

\* ------------------------------------------------- Piece::rotated on any piece
\* The input is any piece generate_new can return; it is kept in `generated`
\* while the turns are applied to current_piece.
InitRotated ==
    \E p \in generate_new :
        /\ cell_matrix = [y \in 1 .. Height |-> RowNew(Width)]
        /\ cell_matrix_width = Width
        /\ current_piece = <<p>>
        /\ current_piece_mass_xy = <<0, 0>>
        /\ rows_cleared = 0
        /\ is_alive = TRUE
        /\ op = "input"
        /\ ret = TRUE
        /\ generated = <<p>>
        /\ cleared = {}
        /\ passes = <<>>
        /\ growing = <<>>

rotated_call(clockwise) ==
    /\ op' = (IF clockwise THEN "rotated_cw" ELSE "rotated_ccw")
    /\ current_piece' = <<rotated(current_piece[1], clockwise)>>
    /\ UNCHANGED <<cell_matrix, cell_matrix_width, current_piece_mass_xy,
                   rows_cleared, is_alive, ret, generated, cleared, passes, growing>>

NextRotated ==
    \/ rotated_call(TRUE)
    \/ rotated_call(FALSE)

SpecRotated == InitRotated /\ [][NextRotated]_vars

\* ------------------------------------------- Piece::generate_new, draw by draw
\* growing holds the locals of the call: hue and size as drawn, cells with the
\* origin cell pushed, sites = OFFSETS.  Each step is one turn of the loop with
\* one drawn site; the call returns when `size` cells are there.
InitGenerate ==
    \E hue \in Hues, size \in MinPieceSize .. MaxPieceSize :
        /\ cell_matrix = [y \in 1 .. Height |-> RowNew(Width)]
        /\ cell_matrix_width = Width
        /\ current_piece = <<>>
        /\ current_piece_mass_xy = <<0, 0>>
        /\ rows_cleared = 0
        /\ is_alive = TRUE
        /\ op = "input"
        /\ ret = TRUE
        /\ generated = <<>>
        /\ cleared = {}
        /\ passes = <<>>
        /\ growing = <<[hue |-> hue,
                        size |-> size,
                        cells |-> <<CellWithRelativePosition(hue, 0, 0)>>,
                        sites |-> {OFFSETS[k] : k \in 1 .. 4}]>>

generate_step ==
    /\ growing # <<>>
    /\ Len(growing[1].cells) < growing[1].size
    /\ \E s \in growing[1].sites :
          LET a == attach(growing[1].hue, growing[1].cells, growing[1].sites, s)
          IN  growing' = <<[growing[1] EXCEPT !.cells = a.cells, !.sites = a.sites]>>
    /\ UNCHANGED <<cell_matrix, cell_matrix_width, current_piece,
                   current_piece_mass_xy, rows_cleared, is_alive, op, ret,
                   generated, cleared, passes>>

generate_return ==
    /\ growing # <<>>
    /\ Len(growing[1].cells) = growing[1].size
    /\ op' = "generate_new"
    /\ generated' = <<MkPiece(growing[1].cells)>>
    /\ growing' = <<>>
    /\ UNCHANGED <<cell_matrix, cell_matrix_width, current_piece,
                   current_piece_mass_xy, rows_cleared, is_alive, ret,
                   cleared, passes>>

NextGenerate ==
    \/ generate_step
    \/ generate_return

SpecGenerate == InitGenerate /\ [][NextGenerate]_vars

\* ------------------------------------------------- the spawn on an empty board
\* GameState::new(height, width) before its queue_new_piece call, which also is
\* the state reset leaves on an empty board: for every side from MaxPieceSize
\* to MaxSpawnSide, and for the board of main.rs.
SpawnBoards ==
    ((MaxPieceSize .. MaxSpawnSide) \X (MaxPieceSize .. MaxSpawnSide))
        \cup {<<height_cells, width_cells>>}

InitSpawn ==
    \E hw \in SpawnBoards :
        /\ cell_matrix = [y \in 1 .. hw[1] |-> RowNew(hw[2])]
        /\ cell_matrix_width = hw[2]
        /\ current_piece = <<>>
        /\ current_piece_mass_xy = <<0, 0>>
        /\ rows_cleared = 0
        /\ is_alive = TRUE
        /\ op = "input"
        /\ ret = TRUE
        /\ generated = <<>>
        /\ cleared = {}
        /\ passes = <<>>
        /\ growing = <<>>

\* The queue_new_piece call that ends GameState::new.
new_spawn ==
    /\ op = "input"
    /\ op' = "new"
    /\ \E p \in generate_new : queue_new_piece(cell_matrix, p)
    /\ cleared' = {}
    /\ passes' = <<>>
    /\ growing' = <<>>
    /\ UNCHANGED <<cell_matrix, cell_matrix_width, rows_cleared, ret>>

\* try_drop_current_piece without an active piece, as the first call after reset.
drop_spawn ==
    /\ op = "input"
    /\ current_piece = <<>>
    /\ op' = "try_drop"
    /\ \E p \in generate_new : queue_new_piece(cell_matrix, p)
    /\ ret' = FALSE
    /\ cleared' = {}
    /\ passes' = <<>>
    /\ growing' = <<>>
    /\ UNCHANGED <<cell_matrix, cell_matrix_width, rows_cleared>>

NextSpawn ==
    \/ new_spawn
    \/ drop_spawn

SpecSpawn == InitSpawn /\ [][NextSpawn]_vars

\* ============================================================== properties
\* The vocabulary of the claims, stated on positions rather than on the
\* iterator and the Vec accesses of the code.
Projected(p, xy) ==
    { <<xy[1] + p.cells[i].x - p.center_of_mass_x,
        xy[2] + p.cells[i].y - p.center_of_mass_y>> : i \in 1 .. Len(p.cells) }

SlotFree(matrix, pos) ==
    /\ pos[1] >= 0
    /\ pos[2] >= 0
    /\ pos[2] < Height
    /\ pos[1] < Width
    /\ matrix[pos[2] + 1].cells[pos[1] + 1] = None

Legal(matrix, p, xy) == \A pos \in Projected(p, xy) : SlotFree(matrix, pos)

InGrid(pos) == pos[1] >= 0 /\ pos[2] >= 0 /\ pos[2] < Height /\ pos[1] < Width

AllNone(row) == \A x \in 1 .. Len(row.cells) : row.cells[x] = None
IsFull(row) == \A x \in 1 .. Len(row.cells) : row.cells[x] # None
NotFull(row) == ~ IsFull(row)
NumFull(g) == Cardinality({y \in 1 .. Len(g) : IsFull(g[y])})

\* The grid with the cells of p written at their projected positions.
Written(matrix, p, xy) ==
    [y \in 1 .. Len(matrix) |->
        [cells |-> [x \in 1 .. Len(matrix[y].cells) |->
                       IF <<x - 1, y - 1>> \in Projected(p, xy)
                       THEN p.cells[CHOOSE i \in 1 .. Len(p.cells) :
                                       /\ xy[1] + p.cells[i].x - p.center_of_mass_x = x - 1
                                       /\ xy[2] + p.cells[i].y - p.center_of_mass_y = y - 1].cell
                       ELSE matrix[y].cells[x]],
         is_empty |-> /\ matrix[y].is_empty
                      /\ \A pos \in Projected(p, xy) : pos[2] # y - 1]]

\* Reference row clearing: delete the full rows, insert as many empty rows
\* at the top, keep the other rows in their order.
RefClear(g) ==
    LET keep == SelectSeq(g, NotFull)
    IN  [i \in 1 .. Len(g) - Len(keep) |-> RowNew(Width)] \o keep

ClearanceOf(p) ==
    LET ys == {p.cells[i].y - p.center_of_mass_y : i \in 1 .. Len(p.cells)}
        lo == CHOOSE y \in ys : \A z \in ys : y <= z
    IN  IF lo < 0 THEN -lo ELSE lo

\* C1: can_place(piece, anchor) is true iff every projected cell has x >= 0,
\* y >= 0, y < height, x < width and an empty slot at (y, x).
C1_CanPlaceIff ==
    op = "can_place" =>
        (ret <=> Legal(cell_matrix, current_piece[1], current_piece_mass_xy))

\* A placement refused only because of an occupied slot inside the grid.
C1_Witness ==
    /\ op = "can_place"
    /\ ~ ret
    /\ \A pos \in Projected(current_piece[1], current_piece_mass_xy) : InGrid(pos)

\* C2: try_rotate and try_shift are all-or-nothing.  A call that returns
\* false leaves grid, piece, anchor, rows_cleared and alive as they were; a
\* rotation that returns true changes only the piece (to a rotated piece), a
\* shift that returns true changes only anchor.x (by -1 or +1); the new
\* placement is legal; grid, rows_cleared and alive never change.
C2_Step ==
    /\ op' = "try_rotate" =>
          /\ cell_matrix' = cell_matrix
          /\ rows_cleared' = rows_cleared
          /\ is_alive' = is_alive
          /\ current_piece_mass_xy' = current_piece_mass_xy
          /\ IF ret'
             THEN /\ current_piece # <<>>
                  /\ current_piece' \in {<<rotated(current_piece[1], c)>> : c \in BOOLEAN}
                  /\ Legal(cell_matrix', current_piece'[1], current_piece_mass_xy')
             ELSE current_piece' = current_piece
    /\ op' = "try_leftright" =>
          /\ cell_matrix' = cell_matrix
          /\ rows_cleared' = rows_cleared
          /\ is_alive' = is_alive
          /\ current_piece' = current_piece
          /\ IF ret'
             THEN /\ current_piece # <<>>
                  /\ current_piece_mass_xy'[2] = current_piece_mass_xy[2]
                  /\ current_piece_mass_xy'[1] - current_piece_mass_xy[1] \in {-1, 1}
                  /\ Legal(cell_matrix', current_piece'[1], current_piece_mass_xy')
             ELSE current_piece_mass_xy' = current_piece_mass_xy

C3_Step ==
    op' = "try_drop" =>
        LET advance == /\ current_piece # <<>>
                       /\ Legal(cell_matrix, current_piece[1],
                                <<current_piece_mass_xy[1], current_piece_mass_xy[2] + 1>>)
        IN  /\ ret' <=> advance
            /\ advance =>
                  /\ current_piece_mass_xy' =
                        <<current_piece_mass_xy[1], current_piece_mass_xy[2] + 1>>
                  /\ UNCHANGED <<cell_matrix, current_piece, rows_cleared, is_alive>>
                  /\ generated' = <<>>
            /\ (current_piece # <<>> /\ ~ advance) =>
                  /\ cell_matrix' =
                        RefClear(Written(cell_matrix, current_piece[1], current_piece_mass_xy))
                  /\ current_piece' = <<>>
                  /\ generated' = <<>>
                  /\ is_alive' = is_alive
            /\ current_piece = <<>> =>
                  /\ generated' # <<>>
                  /\ UNCHANGED <<cell_matrix, rows_cleared>>

C3_Drop == [][C3_Step]_vars

\* A landing: the piece could not advance, was written and a row was cleared.
C3_Witness ==
    /\ op = "try_drop"
    /\ ~ ret
    /\ generated = <<>>
    /\ current_piece = <<>>
    /\ cleared # {}

\* C4: once alive is false every mutator is a no-op; equivalently, in every
\* reachable state alive = false implies that there is no active piece.
C4_DeadHasNoPiece == ~ is_alive => current_piece = <<>>

\* C5: alive turns false only in a spawn attempt (construction, or try_drop
\* with no active piece) and exactly when the generated piece is not legal at
\* (width / 2, clearance); then no piece is active.  A legal piece becomes the
\* active piece at that anchor, no cell above row 0, alive unchanged.
C5_Outcome(matrix, p, was_alive, now_alive, piece, anchor) ==
    LET none == <<>>
        at == <<Width \div 2, ClearanceOf(p)>>
    IN  IF Legal(matrix, p, at)
        THEN /\ piece = <<p>>
             /\ anchor = at
             /\ now_alive = was_alive
             /\ \A pos \in Projected(p, at) : pos[2] >= 0
        ELSE /\ ~ now_alive
             /\ piece = none

C5_New ==
    op = "new" =>
        /\ generated # <<>>
        /\ C5_Outcome(cell_matrix, generated[1], TRUE, is_alive,
                      current_piece, current_piece_mass_xy)

C5_Step ==
    /\ (is_alive /\ ~ is_alive') =>
          /\ op' = "try_drop"
          /\ current_piece = <<>>
          /\ generated' # <<>>
    /\ generated' # <<>> =>
          C5_Outcome(cell_matrix, generated'[1], is_alive, is_alive',
                     current_piece', current_piece_mass_xy')

C5_Spawn == C5_New /\ [][C5_Step]_vars

\* A spawn attempt of try_drop that failed: the game is over, no piece.
C5_Witness ==
    /\ op = "try_drop"
    /\ generated # <<>>
    /\ ~ is_alive
    /\ current_piece = <<>>

\* C6: once alive is false it stays false through try_rotate, try_shift and
\* try_drop; only reset sets it back to true.
C6_Step == (~ is_alive /\ op' # "reset") => ~ is_alive'

C6_GameOverIsTerminal == [][C6_Step]_vars

\* A mutator was called although the game was over.
C6_Witness ==
    /\ ~ is_alive
    /\ op \in {"try_rotate", "try_leftright"}

\* C7: reset yields the state with every row all None and flagged empty, no
\* active piece, rows_cleared = 0, alive = true, the grid size unchanged, and
\* without a spawn attempt (hence reset after reset changes nothing).
C7_Reset ==
    op = "reset" =>
        /\ Len(cell_matrix) = Height
        /\ cell_matrix_width = Width
        /\ \A y \in 1 .. Len(cell_matrix) :
              /\ Len(cell_matrix[y].cells) = Width
              /\ AllNone(cell_matrix[y])
              /\ cell_matrix[y].is_empty
        /\ current_piece = <<>>
        /\ generated = <<>>
        /\ rows_cleared = 0
        /\ is_alive

C7_Witness == op = "reset" /\ current_piece = <<>> /\ is_alive

\* C8: for every grid a landing try_drop produces, clear_finished_rows gives
\* the result of the reference operation (full rows deleted, as many empty
\* rows inserted at the top, order kept) and rows_cleared grows by the number
\* of full rows.
C8_Step ==
    (op' = "try_drop" /\ current_piece # <<>> /\ ~ ret') =>
        LET g == commit_current_piece(cell_matrix, current_piece[1], current_piece_mass_xy)
        IN  /\ cell_matrix' = RefClear(g)
            /\ rows_cleared' = rows_cleared + NumFull(g)

C8_ClearIsDeleteAndInsert == [][C8_Step]_vars

\* A landing cleared exactly one row and a non-empty row came down into its place.
C8_Witness ==
    /\ op = "try_drop"
    /\ \E r \in cleared :
          /\ cleared = {r}
          /\ r >= 1
          /\ ~ AllNone(cell_matrix[r + 1])

\* C10: in every reachable state the flag is_empty of a row is true iff every
\* slot of the row is None.
C10_FlagIsCache ==
    \A y \in 1 .. Len(cell_matrix) : cell_matrix[y].is_empty <=> AllNone(cell_matrix[y])

\* After a landing that cleared a row, both empty and non-empty rows exist.
C10_Witness ==
    /\ op = "try_drop"
    /\ cleared # {}
    /\ \E y \in 1 .. Len(cell_matrix) : ~ AllNone(cell_matrix[y])
    /\ \E y \in 1 .. Len(cell_matrix) : AllNone(cell_matrix[y])

\* C9 (as stated): for any grid with exactly one fully occupied row, at
\* index r, clear_finished_rows raises rows_cleared by 1, moves every row
\* above r down by one (row 0 becomes empty) and leaves the rows below r.
ExactlyOneFull(g, r) ==
    /\ IsFull(g[r + 1])
    /\ \A y \in 1 .. Len(g) : y # r + 1 => ~ IsFull(g[y])

ShiftedDownAbove(before, after, r) ==
    /\ AllNone(after[1])
    /\ after[1].is_empty
    /\ \A i \in 0 .. r - 1 : after[i + 2] = before[i + 1]
    /\ \A i \in r + 1 .. Len(before) - 1 : after[i + 1] = before[i + 1]

C9_StepAnyGrid ==
    op' = "clear_finished_rows" =>
        \A r \in 0 .. Len(cell_matrix) - 1 :
            ExactlyOneFull(cell_matrix, r) =>
                /\ rows_cleared' = rows_cleared + 1
                /\ ShiftedDownAbove(cell_matrix, cell_matrix', r)

C9_AnyGrid == [][C9_StepAnyGrid]_vars

\* C9 (amended): the same, for a grid in which no empty row lies below a
\* non-empty row among the rows above r.
NoGapAbove(g, r) ==
    \A i \in 0 .. r - 1 : \A j \in i + 1 .. r - 1 :
        ~ (~ AllNone(g[i + 1]) /\ AllNone(g[j + 1]))

C9_StepNoGap ==
    op' = "clear_finished_rows" =>
        \A r \in 0 .. Len(cell_matrix) - 1 :
            (ExactlyOneFull(cell_matrix, r) /\ NoGapAbove(cell_matrix, r)) =>
                /\ rows_cleared' = rows_cleared + 1
                /\ ShiftedDownAbove(cell_matrix, cell_matrix', r)

C9_NoGap == [][C9_StepNoGap]_vars

\* One row was cleared at r >= 2 and the two rows above it came down by one,
\* with no empty row left between non-empty rows.
C9_Witness ==
    /\ op = "clear_finished_rows"
    /\ \E r \in cleared :
          /\ cleared = {r}
          /\ r >= 2
          /\ ~ AllNone(cell_matrix[r + 1])
          /\ ~ AllNone(cell_matrix[r])
          /\ NoGapAbove(cell_matrix, r + 1)

\* ---------------------------------------------------------------- claim C11

\* C11: rows_cleared never decreases under rotate, shift and drop: a rotate or
\* a shift leaves it unchanged, a try_drop raises it by exactly the number of
\* full rows the landing produced (0 when nothing landed), and the only call
\* that lowers it is reset, which sets it to 0.
C11_Step ==
    /\ op' \in {"try_rotate", "try_leftright"} => rows_cleared' = rows_cleared
    /\ op' = "try_drop" =>
          rows_cleared' = rows_cleared +
              (IF current_piece # <<>> /\ ~ ret'
               THEN NumFull(Written(cell_matrix, current_piece[1], current_piece_mass_xy))
               ELSE 0)
    /\ rows_cleared' < rows_cleared => op' = "reset"
    /\ op' = "reset" => rows_cleared' = 0

C11_RowsClearedCounts == [][C11_Step]_vars

\* A landing completed two rows at once and both were counted.
C11_Witness ==
    /\ op = "try_drop"
    /\ Cardinality(cleared) = 2
    /\ rows_cleared = 2

\* ---------------------------------------------------------------- claim C12

\* C12: every quarter turn of a piece keeps its center of mass and its number
\* of cells, is undone by the quarter turn in the other direction, and is
\* undone by three more quarter turns in the same direction, cell by cell in
\* the same sequence position.
C12_Step ==
    op' \in {"rotated_cw", "rotated_ccw"} =>
        LET clockwise == (op' = "rotated_cw")
            p == current_piece[1]
            q == current_piece'[1]
        IN  /\ Len(q.cells) = Len(p.cells)
            /\ q.center_of_mass_x = p.center_of_mass_x
            /\ q.center_of_mass_y = p.center_of_mass_y
            /\ rotated(q, ~ clockwise) = p
            /\ \A second \in {rotated(q, clockwise)} :
               \A third \in {rotated(second, clockwise)} :
                  /\ third.center_of_mass_x = p.center_of_mass_x
                  /\ third.center_of_mass_y = p.center_of_mass_y
                  /\ \A fourth \in {rotated(third, clockwise)} :
                        /\ Len(fourth.cells) = Len(p.cells)
                        /\ \A i \in 1 .. Len(p.cells) : fourth.cells[i] = p.cells[i]

C12_RotationGroup == [][C12_Step]_vars

\* A five-cell piece whose center of mass is not the origin was turned
\* clockwise and no longer is the piece that was generated.
C12_Witness ==
    /\ op = "rotated_cw"
    /\ Len(current_piece[1].cells) = 5
    /\ <<current_piece[1].center_of_mass_x, current_piece[1].center_of_mass_y>> # <<0, 0>>
    /\ current_piece # generated

\* ---------------------------------------------------------------- claim C13

\* The positions of a sequence of cells.
PositionsOf(cells) == { <<cells[i].x, cells[i].y>> : i \in 1 .. Len(cells) }

\* The positions of `all` that unit steps through `all` reach from `seen`.
RECURSIVE ReachedFrom(_, _)
ReachedFrom(seen, all) ==
    LET more == { n \in all \ seen :
                     \E s \in seen : Abs(n[1] - s[1]) + Abs(n[2] - s[2]) = 1 }
    IN  IF more = {} THEN seen ELSE ReachedFrom(seen \cup more, all)

\* C13: whatever is drawn, when generate_new draws a site the candidate set is
\* not empty, the candidate set never holds a position a cell of the piece is
\* at, and the returned piece has 3 to 5 cells, one of them at the origin, at
\* pairwise distinct positions, each reachable from the origin by unit steps
\* through cells of the piece.
C13_Generated ==
    /\ growing # <<>> =>
          LET g == growing[1]
          IN  /\ Len(g.cells) < g.size => g.sites # {}
              /\ g.sites \cap PositionsOf(g.cells) = {}
    /\ op = "generate_new" =>
          LET cells == generated[1].cells
          IN  /\ Len(cells) >= MinPieceSize
              /\ Len(cells) <= MaxPieceSize
              /\ <<0, 0>> \in PositionsOf(cells)
              /\ Cardinality(PositionsOf(cells)) = Len(cells)
              /\ ReachedFrom({<<0, 0>>}, PositionsOf(cells)) = PositionsOf(cells)

\* A five-cell piece was returned whose last cell is not next to the cell
\* attached before it.
C13_Witness ==
    /\ op = "generate_new"
    /\ Len(generated[1].cells) = 5
    /\ LET c == generated[1].cells
       IN  Abs(c[5].x - c[4].x) + Abs(c[5].y - c[4].y) > 1

\* ---------------------------------------------------------------- claim C14

\* C14: whenever there is an active piece, each of its projected cells at the
\* current anchor is inside the grid and on a slot holding None, so the
\* commit of a landing writes only slots of the grid that were empty.
C14_ActiveFits ==
    current_piece # <<>> =>
        /\ \A pos \in Projected(current_piece[1], current_piece_mass_xy) : InGrid(pos)
        /\ Legal(cell_matrix, current_piece[1], current_piece_mass_xy)

\* A piece was turned successfully next to a column wall above landed cells.
C14_Witness ==
    /\ op = "try_rotate"
    /\ ret
    /\ \E y \in 1 .. Height : ~ AllNone(cell_matrix[y])
    /\ \E pos \in Projected(current_piece[1], current_piece_mass_xy) :
          pos[1] = 0 \/ pos[1] = Width - 1

\* ---------------------------------------------------------------- claim C15

\* C15: after every public call no row of the grid has all its slots
\* occupied, also when a landing completed several rows at once.
C15_NoFullRow == \A y \in 1 .. Len(cell_matrix) : NotFull(cell_matrix[y])

\* A landing completed two rows at once while a third row kept cells.
C15_Witness ==
    /\ op = "try_drop"
    /\ ~ ret
    /\ Cardinality(cleared) >= 2
    /\ \E y \in 1 .. Height : ~ AllNone(cell_matrix[y])

\* ---------------------------------------------------------------- claim C16

\* C16: on every grid clear_finished_rows ends after finitely many passes: a
\* pass is followed by another one only if it cleared at least one row, each
\* pass that cleared rows leaves strictly fewer occupied slots (width fewer
\* per cleared row), the pass the call ends with cleared none, and so there
\* are at most (occupied slots at the start) / width + 1 passes.
C16_ClearTerminates ==
    op = "clear_finished_rows" =>
        /\ Len(passes) >= 1
        /\ Len(passes) <= (passes[1].occupied \div Width) + 1
        /\ \A k \in 1 .. Len(passes) - 1 :
              /\ passes[k].cleared >= 1
              /\ passes[k + 1].occupied < passes[k].occupied
              /\ passes[k + 1].occupied = passes[k].occupied - Width * passes[k].cleared
        /\ passes[Len(passes)].cleared = 0
        /\ passes[Len(passes)].occupied = occupied(cell_matrix)

\* A call whose first pass cleared two rows and that ran a second pass on a
\* grid that kept cells.
C16_Witness ==
    /\ op = "clear_finished_rows"
    /\ Len(passes) = 2
    /\ passes[1].cleared = 2
    /\ passes[2].occupied > 0

\* ---------------------------------------------------------------- claim C17

\* C17: in every state of the game the rows holding cells form one block at
\* the bottom of the grid: no row without cells lies below a row with cells.
C17_StackIsContiguous ==
    \A y \in 1 .. Len(cell_matrix) : \A z \in y + 1 .. Len(cell_matrix) :
        ~ AllNone(cell_matrix[y]) => ~ AllNone(cell_matrix[z])

\* A landing cleared a row that had rows with cells both below and above it;
\* the row above came down onto the row below.
C17_Witness ==
    /\ op = "try_drop"
    /\ \E r \in cleared :
          /\ cleared = {r}
          /\ r + 1 < Height
          /\ ~ AllNone(cell_matrix[r + 1])
          /\ ~ AllNone(cell_matrix[r + 2])

\* ---------------------------------------------------------------- claim C18

\* C18: cells are conserved.  A new game has no occupied slot and
\* rows_cleared = 0, and so has the game after a reset; the commit of a
\* landing adds exactly as many occupied slots as the piece has cells and the
\* row clearing then removes exactly width slots per row counted in
\* rows_cleared; no other call changes the number of occupied slots.  Hence
\* the occupied slots always are the cells committed since the last reset (or
\* construction) minus width times rows_cleared.
C18_New == occupied(cell_matrix) = 0 /\ rows_cleared = 0

C18_Step ==
    /\ (op' = "try_drop" /\ current_piece # <<>> /\ ~ ret') =>
          LET g == commit_current_piece(cell_matrix, current_piece[1], current_piece_mass_xy)
          IN  /\ occupied(g) = occupied(cell_matrix) + Len(current_piece[1].cells)
              /\ occupied(cell_matrix') = occupied(g) - Width * (rows_cleared' - rows_cleared)
    /\ (op' = "try_drop" /\ (current_piece = <<>> \/ ret')) =>
          /\ occupied(cell_matrix') = occupied(cell_matrix)
          /\ rows_cleared' = rows_cleared
    /\ op' \in {"try_rotate", "try_leftright"} =>
          /\ occupied(cell_matrix') = occupied(cell_matrix)
          /\ rows_cleared' = rows_cleared
    /\ op' = "reset" =>
          /\ occupied(cell_matrix') = 0
          /\ rows_cleared' = 0

C18_CellsConserved == C18_New /\ [][C18_Step]_vars

\* The second row of the game was cleared by a landing that left cells behind.
C18_Witness ==
    /\ op = "try_drop"
    /\ Cardinality(cleared) = 1
    /\ rows_cleared = 2
    /\ occupied(cell_matrix) > 0

\* ---------------------------------------------------------------- claim C19

\* C19: while the driver keeps calling try_drop, with rotates and shifts in
\* between, each try_drop with an active piece either moves the piece down by
\* one row or takes it out of the active slot, the anchor row of an active
\* piece stays below the board height, and every active piece eventually is
\* committed: a landing try_drop leaves the active slot None.
C19_Step ==
    (op' = "try_drop" /\ current_piece # <<>>) =>
        \/ /\ ret'
           /\ current_piece' = current_piece
           /\ current_piece_mass_xy' =
                 <<current_piece_mass_xy[1], current_piece_mass_xy[2] + 1>>
        \/ /\ ~ ret'
           /\ current_piece' = <<>>
           /\ cell_matrix' = RefClear(Written(cell_matrix, current_piece[1],
                                              current_piece_mass_xy))

C19_Bounded ==
    current_piece # <<>> =>
        current_piece_mass_xy[2] >= 0 /\ current_piece_mass_xy[2] < Height

C19_Landed ==
    /\ op = "try_drop"
    /\ ~ ret
    /\ generated = <<>>
    /\ current_piece = <<>>

C19_EveryPieceLands ==
    /\ [][C19_Step]_vars
    /\ [] C19_Bounded
    /\ (current_piece # <<>>) ~> C19_Landed

\* A piece landed on top of cells that had landed before it.
C19_Witness ==
    /\ C19_Landed
    /\ is_alive
    /\ current_piece_mass_xy[2] < Height - 1
    /\ occupied(cell_matrix) >= 6

\* ---------------------------------------------------------------- claim C20

\* C20: on an empty grid with width >= 5 and height >= 5 (the board of main.rs
\* among them) a spawn never ends the game: after GameState::new and after the
\* first try_drop following a reset the game is alive and the generated piece
\* is active, with every projected cell inside the grid, whatever piece the
\* generator returned.
C20_SpawnFitsEmptyBoard ==
    op \in {"new", "try_drop"} =>
        /\ is_alive
        /\ current_piece # <<>>
        /\ current_piece = generated
        /\ \A pos \in Projected(current_piece[1], current_piece_mass_xy) :
              /\ pos[1] >= 0
              /\ pos[1] < cell_matrix_width
              /\ pos[2] >= 0
              /\ pos[2] < Len(cell_matrix)

\* A piece as wide as the board was spawned by GameState::new on the
\* narrowest board.
C20_Witness ==
    /\ op = "new"
    /\ cell_matrix_width = MaxPieceSize
    /\ {pos[1] : pos \in Projected(current_piece[1], current_piece_mass_xy)}
          = 0 .. MaxPieceSize - 1

====
